---- MODULE Spec2Model ----
(***************************************************************************)
(* A model of the term-scoped course data cache of the USC academic        *)
(* advisor (module/api/cache.py), of the ingest that feeds it              *)
(* (module/api/parse.py, module/util/format.py), of the department         *)
(* directory lookup (module/util/dept_info.py) and of the schedule         *)
(* conflict check with its error type (module/errors/exceptions.py).       *)
(*                                                                         *)
(* Representation.                                                         *)
(*  - A Python str is a TLA+ string; f-strings are \o concatenations.      *)
(*  - A value that may have several Python types is a record with a tag    *)
(*    field k and the same fields for every tag.                           *)
(*  - The string "a, b, c" that conv_days joins with ", " is the sequence  *)
(*    of its pieces; Split models str.split(", ") on it.                   *)
(*  - A decimal hour is kept as the integer number of minutes (hour * 60). *)
(*  - A DataFrame is the sequence of its rows; pd.concat is \o.            *)
(***************************************************************************)
EXTENDS Integers, Sequences, FiniteSets, TLC

VARIABLES
    term,       \* Cache.term: the active term
    cached,     \* Cache.cached: set of <<dept, term>> pairs
    courses,    \* Cache.courses: rows of the Courses table
    sections,   \* Cache.sections: rows of the Sections table
    log,        \* the calls made to the external data source, in order
    ret,        \* the last operation: its name, argument and outcome
    section_ids,    \* LangChainModel.section_ids: the session's schedule
    fig,            \* LangChainModel.fig: the events the figure shows
    fig_created     \* LangChainModel.fig_created

vars ==
    <<term, cached, courses, sections, log, ret, section_ids, fig, fig_created>>

(***************************************************************************)
(* Bounds of the model.                                                    *)
(***************************************************************************)
\* external fetches explored on one Cache
MaxFetches == 2
\* length of the id lists given to sect_to_sched_dict and to the tools
MaxIds == 2
\* length of the session's schedule
MaxSchedule == 2

(***************************************************************************)
(* Strings: str.lower, str.upper and " ".join over the model's strings.    *)
(***************************************************************************)
Lower(s) ==
    CASE s = "CSCI" -> "csci"
      [] s = "EE" -> "ee"
      [] s = "DSCI" -> "dsci"
      [] s = "Computer Science" -> "computer science"
      [] s = "Data Science" -> "data science"
      [] s = "Electrical Engineering" -> "electrical engineering"
      [] s = "Fall" -> "fall"
      [] s = "Spring" -> "spring"
      [] s = "SUMMER" -> "summer"
      [] s = "CSCU" -> "cscu"
      [] s = "Computr Scienc" -> "computr scienc"
      [] OTHER -> s

Upper(s) ==
    CASE s = "csci" -> "CSCI"
      [] s = "ee" -> "EE"
      [] s = "dsci" -> "DSCI"
      [] s = "computer science" -> "COMPUTER SCIENCE"
      [] s = "data science" -> "DATA SCIENCE"
      [] s = "electrical engineering" -> "ELECTRICAL ENGINEERING"
      [] OTHER -> s

RECURSIVE JoinWith(_, _)
JoinWith(sep, parts) ==
    IF parts = <<>> THEN ""
    ELSE IF Len(parts) = 1 THEN Head(parts)
    ELSE Head(parts) \o sep \o JoinWith(sep, Tail(parts))

\* s.split(", ") of a string kept as the sequence of its ", "-joined pieces:
\* "".split(", ") is [""], never the empty list.
Split(pieces) == IF pieces = <<>> THEN <<"">> ELSE pieces

Range(f) == {f[i] : i \in DOMAIN f}

\* LET x == v IN F(x), with v evaluated once
Let(v, F(_)) == CHOOSE y \in {F(x) : x \in {v}} : TRUE

(***************************************************************************)
(* Text whose characters matter (difflib, the course pattern) is the       *)
(* sequence of its characters; Str gives the string of a sequence.         *)
(***************************************************************************)
LowerCase ==
    <<"a", "b", "c", "d", "e", "f", "g", "h", "i", "j", "k", "l", "m",
      "n", "o", "p", "q", "r", "s", "t", "u", "v", "w", "x", "y", "z">>
UpperCase ==
    <<"A", "B", "C", "D", "E", "F", "G", "H", "I", "J", "K", "L", "M",
      "N", "O", "P", "Q", "R", "S", "T", "U", "V", "W", "X", "Y", "Z">>
DigitChars == {"0", "1", "2", "3", "4", "5", "6", "7", "8", "9"}

IndexOf(seq, c) == CHOOSE i \in DOMAIN seq : seq[i] = c

\* str.lower and str.upper, character by character
LowerChars(cs) ==
    [i \in DOMAIN cs |->
        IF cs[i] \in Range(UpperCase)
          THEN LowerCase[IndexOf(UpperCase, cs[i])] ELSE cs[i]]
UpperChars(cs) ==
    [i \in DOMAIN cs |->
        IF cs[i] \in Range(LowerCase)
          THEN UpperCase[IndexOf(LowerCase, cs[i])] ELSE cs[i]]

RECURSIVE StripLeft(_)
StripLeft(cs) ==
    IF cs # <<>> /\ Head(cs) = " " THEN StripLeft(Tail(cs)) ELSE cs

RECURSIVE StripRight(_)
StripRight(cs) ==
    IF cs # <<>> /\ cs[Len(cs)] = " "
      THEN StripRight(SubSeq(cs, 1, Len(cs) - 1)) ELSE cs

\* str.strip
Strip(cs) == StripRight(StripLeft(cs))

\* str.replace(" ", "")
NoSpaces(cs) == SelectSeq(cs, LAMBDA c : c # " ")

Str(cs) == JoinWith("", cs)

\* the characters of the strings of the department directory
Chars(s) ==
    CASE s = "csci" ->
           <<"c", "s", "c", "i">>
      [] s = "ee" ->
           <<"e", "e">>
      [] s = "dsci" ->
           <<"d", "s", "c", "i">>
      [] s = "computer science" ->
           <<"c", "o", "m", "p", "u", "t", "e", "r", " ", "s", "c", "i",
             "e", "n", "c", "e">>
      [] s = "electrical engineering" ->
           <<"e", "l", "e", "c", "t", "r", "i", "c", "a", "l", " ", "e",
             "n", "g", "i", "n", "e", "e", "r", "i", "n", "g">>
      [] s = "data science" ->
           <<"d", "a", "t", "a", " ", "s", "c", "i", "e", "n", "c", "e">>
      [] s = "CSCI" ->
           <<"C", "S", "C", "I">>
      [] s = " csci " ->
           <<" ", "c", "s", "c", "i", " ">>
      [] s = "EE" ->
           <<"E", "E">>
      [] s = "Computer Science" ->
           <<"C", "o", "m", "p", "u", "t", "e", "r", " ", "S", "c", "i",
             "e", "n", "c", "e">>
      [] s = "Computr Scienc" ->
           <<"C", "o", "m", "p", "u", "t", "r", " ", "S", "c", "i", "e",
             "n", "c">>
      [] s = "computr scienc" ->
           <<"c", "o", "m", "p", "u", "t", "r", " ", "s", "c", "i", "e",
             "n", "c">>
      [] s = "CSCU" ->
           <<"C", "S", "C", "U">>
      [] s = "cscu" ->
           <<"c", "s", "c", "u">>
      [] s = "ce" ->
           <<"c", "e">>
      [] s = "eng" ->
           <<"e", "n", "g">>
      [] s = "xyz" ->
           <<"x", "y", "z">>
      [] s = "CSCI 104" ->
           <<"C", "S", "C", "I", " ", "1", "0", "4">>
      [] s = "CSCI104" ->
           <<"C", "S", "C", "I", "1", "0", "4">>
      [] s = "csci 0104" ->
           <<"c", "s", "c", "i", " ", "0", "1", "0", "4">>
      [] s = "CSCI0104A" ->
           <<"C", "S", "C", "I", "0", "1", "0", "4", "A">>
      [] s = "CSCU 104" ->
           <<"C", "S", "C", "U", " ", "1", "0", "4">>
      [] s = "XYZ 104" ->
           <<"X", "Y", "Z", " ", "1", "0", "4">>
      [] s = "104" ->
           <<"1", "0", "4">>
      [] s = "COMPS 104" ->
           <<"C", "O", "M", "P", "S", " ", "1", "0", "4">>
      [] s = "CSCI 1040" ->
           <<"C", "S", "C", "I", " ", "1", "0", "4", "0">>
      [] s = "EE 109" ->
           <<"E", "E", " ", "1", "0", "9">>

(***************************************************************************)
(* Term resolver (format.py conv_term). A term argument is                 *)
(* [k |-> "int", n], [k |-> "name", season, year] ("<season> <year>") or   *)
(* [k |-> "bad"] (any other text).                                         *)
(***************************************************************************)
IntTerm(n) == [k |-> "int", n |-> n, season |-> "", year |-> 0]
NameTerm(s, y) == [k |-> "name", n |-> 0, season |-> s, year |-> y]
BadTerm == [k |-> "bad", n |-> 0, season |-> "", year |-> 0]

\* conv_term with the season compared as written (no .lower() at line 177)
conv_term_cased(t) ==
    IF t.k = "int" /\ t.n >= 10000 /\ t.n <= 99999
      THEN [ok |-> TRUE, val |-> t.n]
    ELSE IF t.k = "name" /\ t.season \in {"spring", "summer", "fall"}
            /\ t.year >= 1000 /\ t.year <= 9999
      THEN [ok |-> TRUE,
            val |-> t.year * 10 + (CASE t.season = "spring" -> 1
                                     [] t.season = "summer" -> 2
                                     [] OTHER -> 3)]
    ELSE [ok |-> FALSE, val |-> 0]

\* conv_term without the length test of line 170
conv_term_any_length(t) ==
    IF t.k = "int" /\ t.n >= 0
      THEN [ok |-> TRUE, val |-> t.n]
    ELSE IF t.k = "name" /\ Lower(t.season) \in {"spring", "summer", "fall"}
            /\ t.year >= 1000 /\ t.year <= 9999
      THEN [ok |-> TRUE,
            val |-> t.year * 10 + (CASE Lower(t.season) = "spring" -> 1
                                     [] Lower(t.season) = "summer" -> 2
                                     [] OTHER -> 3)]
    ELSE [ok |-> FALSE, val |-> 0]

\* conv_term of a term given as an int or a str (lines 165-193): IntTerm(n)
\* is the int n or the string of its digits, NameTerm(s, y) the string
\* "s y", BadTerm any other string
conv_term(t) ==
    IF t.k = "int" /\ t.n >= 10000 /\ t.n <= 99999
      THEN [ok |-> TRUE, val |-> t.n]
    ELSE IF t.k = "name" /\ Lower(t.season) \in {"spring", "summer", "fall"}
            /\ t.year >= 1000 /\ t.year <= 9999
      THEN [ok |-> TRUE,
            val |-> t.year * 10 + (CASE Lower(t.season) = "spring" -> 1
                                     [] Lower(t.season) = "summer" -> 2
                                     [] OTHER -> 3)]
    ELSE [ok |-> FALSE, val |-> 0]

Terms == {20251, 20253}

\* conv_term(None): the term of the day of the run (lines 153-163)
DefaultTerm == 20251

TermInputs ==
    { IntTerm(20254), IntTerm(2025), NameTerm("Fall", 2025),
      NameTerm("spring", 2025) }

(***************************************************************************)
(* Department directory (dept_info.py).                                    *)
(***************************************************************************)
\* the <li data-type="department"> items of the directory page of a term
\* (https://classes.usc.edu/term-{term}/): Data Science is listed from 20253
DirectoryPage(t) ==
    { [code |-> "CSCI", title |-> "Computer Science"],
      [code |-> "EE", title |-> "Electrical Engineering"] }
    \cup (IF t = 20253 THEN {[code |-> "DSCI", title |-> "Data Science"]}
          ELSE {})

\* get_depts(term, code_is_key=False), as_lower=True:
\* {name.lower(): code.lower()}
get_depts(t) ==
    [ n \in {Lower(r.title) : r \in DirectoryPage(t)} |->
        Lower((CHOOSE r \in DirectoryPage(t) : Lower(r.title) = n).code) ]

NoDept == "<None>"

\* conv_dept(dept, lower); NoDept stands for None. Line 100 calls get_depts
\* without a term, that is, for conv_term(None)
conv_dept_with(dept, lower) ==
    LET departments == get_depts(DefaultTerm)
        d == Lower(dept)
    IN  IF d \in DOMAIN departments
          THEN (IF lower THEN departments[d] ELSE Upper(departments[d]))
        ELSE IF d \in Range(departments)
          THEN (IF lower THEN d ELSE Upper(d))
        ELSE NoDept

\* conv_dept(dept) with lower=False
\* conv_dept as called with lower=True
conv_dept_lower(dept) == conv_dept_with(dept, TRUE)

conv_dept(dept) == conv_dept_with(dept, FALSE)

DeptCodes == {"CSCI", "EE"}
DeptTexts ==
    {"CSCI", "csci", "Computer Science", "EE", "DSCI", "Basket Weaving"}

(***************************************************************************)
(* match.py: fuzzy_match_dept, with difflib.get_close_matches as the       *)
(* standard library computes it (no junk; the strings are shorter than the *)
(* 200 characters at which difflib starts to discard popular characters).  *)
(***************************************************************************)
RECURSIVE MatchRun(_, _, _, _, _, _)
\* the length of the common run of a from i and b from j, within ahi, bhi
MatchRun(a, i, ahi, b, j, bhi) ==
    IF i > ahi \/ j > bhi \/ a[i] # b[j] THEN 0
    ELSE 1 + MatchRun(a, i + 1, ahi, b, j + 1, bhi)

\* SequenceMatcher.find_longest_match(alo, ahi, blo, bhi) over a[alo..ahi]
\* and b[blo..bhi]: the longest block, of those the one that starts earliest
\* in a, and of those the one that starts earliest in b
find_longest_match(a, alo, ahi, b, blo, bhi) ==
    LET blocks == {[i |-> i, j |-> j, k |-> MatchRun(a, i, ahi, b, j, bhi)] :
                      i \in alo..ahi, j \in blo..bhi}
        best == {x \in blocks : \A y \in blocks : y.k <= x.k}
        first == {x \in best : \A y \in best : x.i <= y.i}
    IN  IF blocks = {} THEN [i |-> alo, j |-> blo, k |-> 0]
        ELSE CHOOSE x \in first : \A y \in first : x.j <= y.j

RECURSIVE Matches(_, _, _, _, _, _)
\* the sum of the sizes of SequenceMatcher.get_matching_blocks()
Matches(a, alo, ahi, b, blo, bhi) ==
    Let(find_longest_match(a, alo, ahi, b, blo, bhi), LAMBDA x :
      IF x.k = 0 THEN 0
      ELSE x.k + Matches(a, alo, x.i - 1, b, blo, x.j - 1)
               + Matches(a, x.i + x.k, ahi, b, x.j + x.k, bhi))

\* SequenceMatcher(None, a, b).ratio() = 2.0 * matches / (len(a) + len(b)),
\* kept as the fraction [num, den]
ratio(a, b) ==
    IF Len(a) + Len(b) = 0 THEN [num |-> 1, den |-> 1]
    ELSE [num |-> 2 * Matches(a, 1, Len(a), b, 1, Len(b)),
          den |-> Len(a) + Len(b)]


\* the order of Python's str comparison on the characters of the directory
CharRank(c) == IF c = " " THEN 0 ELSE IndexOf(LowerCase, c)

RECURSIVE StrLess(_, _)
StrLess(x, y) ==
    IF y = <<>> THEN FALSE
    ELSE IF x = <<>> THEN TRUE
    ELSE IF Head(x) # Head(y) THEN CharRank(Head(x)) < CharRank(Head(y))
    ELSE StrLess(Tail(x), Tail(y))

\* difflib.get_close_matches(word, possibilities, n=1, cutoff): the
\* possibilities x with SequenceMatcher(a=x, b=word).ratio() >= cutoff, and
\* of them heapq.nlargest(1) by (score, x); <<>> when there is none
\* s.ratio() >= cutoff with > for >=
AboveCutoff(r) == 2 * r.num > r.den

\* s.ratio() >= cutoff, with cutoff=0.5 of line 41
AtCutoff(r) == 2 * r.num >= r.den

get_close_matches(word, possibilities) ==
    LET scored == {[x |-> x, r |-> ratio(Chars(x), word)] : x \in possibilities}
        close == {s \in scored : AtCutoff(s.r)}
        Larger(s, t) ==
            \/ s.r.num * t.r.den > t.r.num * s.r.den
            \/ /\ s.r.num * t.r.den = t.r.num * s.r.den
               /\ StrLess(Chars(t.x), Chars(s.x))
    IN  IF close = {} THEN <<>>
        ELSE <<(CHOOSE s \in close : \A t \in close : s = t \/ Larger(s, t)).x>>

\* fuzzy_match_dept(dept); dept is a sequence of characters
\* all_options of line 40: the codes and the names of the directory
all_options == Range(get_depts(DefaultTerm)) \cup DOMAIN get_depts(DefaultTerm)

\* the words most often looked up, with their closest match computed once
CommonWords ==
    {Chars("csci"), Chars("ee"), Chars("computer science"),
     Chars("electrical engineering"), Chars("cscu"), Chars("ce"),
     Chars("eng"), Chars("xyz"), Chars("computr scienc")}
CommonMatches == [w \in CommonWords |-> get_close_matches(w, all_options)]

fuzzy_match_dept(dept) ==
    LET word == LowerChars(Strip(dept))
        dept_dict == get_depts(DefaultTerm)
        codes == Range(dept_dict)
        names == DOMAIN dept_dict
    IN  Let(IF word \in CommonWords THEN CommonMatches[word]
            ELSE get_close_matches(word, all_options), LAMBDA match :
          IF match = <<>> THEN NoDept
          ELSE IF match[1] \in codes THEN Upper(match[1])
          ELSE Upper(dept_dict[match[1]]))

\* cs[lo..hi] exists and all of it is in S
AllIn(cs, lo, hi, S) == hi <= Len(cs) /\ \A i \in lo..hi : cs[i] \in S

\* re.match(r"([A-Z]{2,4})0*([0-9]{1,3}[A-Z]?)", course): the ways the
\* pattern matches a prefix of course, as the lengths of [A-Z]{2,4}, 0*,
\* [0-9]{1,3} and [A-Z]?
CoursePatternMatches(course) ==
    {m \in [n : 2..4, z : 0..Len(course), d : 1..3, l : 0..1] :
        /\ AllIn(course, 1, m.n, Range(UpperCase))
        /\ AllIn(course, m.n + 1, m.n + m.z, {"0"})
        /\ AllIn(course, m.n + m.z + 1, m.n + m.z + m.d, DigitChars)
        /\ AllIn(course, m.n + m.z + m.d + 1, m.n + m.z + m.d + m.l,
                 Range(UpperCase))}

\* the order below, were 0* to take as few zeros as it can
TriedBeforeLazyZeros(x, y) ==
    \/ x.n > y.n
    \/ x.n = y.n /\ x.z < y.z
    \/ x.n = y.n /\ x.z = y.z /\ x.d > y.d
    \/ x.n = y.n /\ x.z = y.z /\ x.d = y.d /\ x.l > y.l

\* the order in which the backtracking matcher tries them: every
\* quantifier is greedy, the leftmost decides first
TriedBefore(x, y) ==
    \/ x.n > y.n
    \/ x.n = y.n /\ x.z > y.z
    \/ x.n = y.n /\ x.z = y.z /\ x.d > y.d
    \/ x.n = y.n /\ x.z = y.z /\ x.d = y.d /\ x.l > y.l

NoCourse == [ok |-> FALSE, dept |-> NoDept, num |-> ""]

\* fuzzy_match_course(course); course is a sequence of characters. The
\* result f"{dept} {match.group(2)}" is kept as its two parts; NoCourse
\* stands for None
fuzzy_match_course(text) ==
    LET course == NoSpaces(UpperChars(Strip(text)))
    IN  Let(CoursePatternMatches(course), LAMBDA found :
          IF found = {} THEN NoCourse
          ELSE LET m == CHOOSE x \in found :
                           \A y \in found : x = y \/ TriedBefore(x, y)
                   dept == fuzzy_match_dept(SubSeq(course, 1, m.n))
               IN  IF dept = NoDept THEN NoCourse
                   ELSE [ok |-> TRUE, dept |-> dept,
                         num |-> Str(SubSeq(course, m.n + m.z + 1,
                                            m.n + m.z + m.d + m.l))])

(***************************************************************************)
(* The external data source's records (api_requests.py api_get_courses):   *)
(* OfferedCourses.course[].CourseData and its SectionData entries.         *)
(***************************************************************************)
\* a start_time/end_time value: "HH:MM" text, other text, or no str at all
HM(h, m) == [k |-> "hm", h |-> h, m |-> m, ap |-> ""]
TBA == [k |-> "text", h |-> 0, m |-> 0, ap |-> ""]
NoTime == [k |-> "none", h |-> 0, m |-> 0, ap |-> ""]

\* a day value: a str (its characters) or another type
Days(chars) == [str |-> TRUE, chars |-> chars]
NoDays == [str |-> FALSE, chars |-> <<>>]

\* an instructor value: absent, one dict, or a list of dicts; a dict either
\* has first_name and last_name or lacks them
Person(first, last) == [named |-> TRUE, first |-> first, last |-> last]
Nameless == [named |-> FALSE, first |-> "", last |-> ""]
NoInstr == [k |-> "none", items |-> <<>>]
OneInstr(d) == [k |-> "dict", items |-> <<d>>]
ManyInstr(ds) == [k |-> "list", items |-> ds]

NoId == "<no id>"

SectionData(id, type, instr, loc, st, et, day) ==
    [id |-> id, type |-> type, instructor |-> instr, location |-> loc,
     start_time |-> st, end_time |-> et, day |-> day,
     spaces_available |-> 60, number_registered |-> 20]

CourseData(prefix, number, sequence, title, units, sects) ==
    [prefix |-> prefix, number |-> number, sequence |-> sequence,
     title |-> title, description |-> "About " \o title, units |-> units,
     SectionData |-> sects]

(***************************************************************************)
(* format.py: the conversions of ingest.                                   *)
(***************************************************************************)
\* conv_time: strptime(time_str, "%H:%M").strftime("%I:%M %p"); a ValueError
\* (text that is no time) returns the text, a TypeError (no str) escapes.
conv_time(t) ==
    IF t.k = "none" THEN [err |-> "TypeError", val |-> t]
    ELSE IF t.k = "hm"
      THEN [err |-> "none",
            val |-> [k |-> "12h",
                     h |-> IF t.h % 12 = 0 THEN 12 ELSE t.h % 12,
                     m |-> t.m,
                     ap |-> IF t.h < 12 THEN "AM" ELSE "PM"]]
    ELSE [err |-> "none", val |-> t]

day_of_week ==
    [c \in {"M", "T", "W", "H", "F", "S", "U"} |->
        CASE c = "M" -> "Mon" [] c = "T" -> "Tue" [] c = "W" -> "Wed"
          [] c = "H" -> "Thu" [] c = "F" -> "Fri" [] c = "S" -> "Sat"
          [] OTHER -> "Sun"]

RECURSIVE conv_days_list(_)
conv_days_list(chars) ==
    IF chars = <<>> THEN <<>>
    ELSE (IF Head(chars) \in DOMAIN day_of_week
            THEN <<day_of_week[Upper(Head(chars))]>> ELSE <<>>)
         \o conv_days_list(Tail(chars))

\* conv_days: the ", "-joined names, kept as the sequence of the pieces
conv_days(d) == IF ~d.str THEN <<"N/A">> ELSE conv_days_list(d.chars)

RECURSIVE InstrNames(_)
InstrNames(items) ==
    IF items = <<>> THEN <<>>
    ELSE <<Head(items).first \o " " \o Head(items).last>>
         \o InstrNames(Tail(items))

\* conv_instr: a dict without first_name/last_name raises KeyError
conv_instr(i) ==
    IF i.k \in {"list", "dict"}
      THEN IF \E n \in DOMAIN i.items : ~i.items[n].named
             THEN [err |-> "KeyError", val |-> ""]
             ELSE [err |-> "none", val |-> JoinWith(", ", InstrNames(i.items))]
      ELSE [err |-> "none", val |-> "N/A"]

(***************************************************************************)
(* parse.py get_courses_dfs.                                               *)
(***************************************************************************)
CourseCode(cd) == cd.prefix \o " " \o cd.number \o cd.sequence

CourseRow(cd, term_code) ==
    [code |-> CourseCode(cd), dept |-> cd.prefix, term |-> term_code,
     title |-> cd.title, description |-> cd.description, units |-> cd.units]

\* the type test of line 98
IsLecture(sd) == sd.type = "Lec"

\* the dict of lines 105-135; its values are evaluated in order, so the
\* first conversion that raises decides the error
SectionRow(cd, sd, term_code) ==
    LET instr == conv_instr(sd.instructor)
        st == conv_time(sd.start_time)
        et == conv_time(sd.end_time)
        err == IF instr.err # "none" THEN instr.err
               ELSE IF st.err # "none" THEN st.err
               ELSE et.err
    IN  [err |-> err,
         row |-> [id |-> sd.id, code |-> CourseCode(cd), dept |-> cd.prefix,
                  term |-> term_code, title |-> cd.title,
                  instructor |-> instr.val, location |-> sd.location,
                  start_time |-> st.val, end_time |-> et.val,
                  day |-> conv_days(sd.day),
                  spaces_left |-> sd.spaces_available - sd.number_registered,
                  number_registered |-> sd.number_registered,
                  spaces_available |-> sd.spaces_available,
                  units |-> cd.units]]

RECURSIVE ParseSections(_, _, _)
\* the inner loop of lines 92-136 over one course's SectionData
ParseSections(cd, sds, term_code) ==
    IF sds = <<>> THEN [err |-> "none", rows |-> <<>>]
    ELSE IF ~IsLecture(Head(sds)) \/ Head(sds).id = NoId
      THEN ParseSections(cd, Tail(sds), term_code)
    ELSE Let(SectionRow(cd, Head(sds), term_code), LAMBDA r :
           IF r.err # "none" THEN [err |-> r.err, rows |-> <<>>]
           ELSE Let(ParseSections(cd, Tail(sds), term_code), LAMBDA rest :
                  IF rest.err # "none" THEN rest
                  ELSE [err |-> "none", rows |-> <<r.row>> \o rest.rows]))

RECURSIVE ParseCourses(_, _)
\* the outer loop of lines 75-136
ParseCourses(cds, term_code) ==
    IF cds = <<>> THEN [err |-> "none", courses |-> <<>>, sections |-> <<>>]
    ELSE Let(ParseSections(Head(cds), Head(cds).SectionData, term_code),
             LAMBDA mine :
           IF mine.err # "none"
             THEN [err |-> mine.err, courses |-> <<>>, sections |-> <<>>]
           ELSE Let(ParseCourses(Tail(cds), term_code), LAMBDA rest :
                  IF rest.err # "none" THEN rest
                  ELSE [err |-> "none",
                        courses |-> <<CourseRow(Head(cds), term_code)>>
                                    \o rest.courses,
                        sections |-> mine.rows \o rest.sections]))

\* a reply of the source: ok is FALSE when api_get_courses returns None
\* (status code not 200), and then raw_data["OfferedCourses"] raises
Reply(cds) == [ok |-> TRUE, course |-> cds]
NoReply == [ok |-> FALSE, course |-> <<>>]

get_courses_dfs(raw_data, term_code) ==
    IF ~raw_data.ok
      THEN [err |-> "TypeError", courses |-> <<>>, sections |-> <<>>]
      ELSE ParseCourses(raw_data.course, term_code)

(***************************************************************************)
(* The replies the external source may give, per department and term.      *)
(***************************************************************************)
Slocum == Person("Carter", "Slocum")
Redekopp == Person("Mark", "Redekopp")

sA == SectionData("29903", "Lec", OneInstr(Slocum), "THH201",
                  HM(9, 0), HM(10, 30), Days(<<"M">>))
\* overlaps sA on Monday
sB == SectionData("29910", "Lec", ManyInstr(<<Redekopp, Slocum>>), "MHP101",
                  HM(10, 0), HM(11, 0), Days(<<"M", "W">>))
\* starts when sA ends, on the same day
sC == SectionData("30397", "Lec", NoInstr, "SGM124",
                  HM(10, 30), HM(11, 0), Days(<<"M">>))
\* overlaps the hours of sA and sB on other days
sD == SectionData("30100", "Lec", OneInstr(Redekopp), "GFS106",
                  HM(9, 30), HM(10, 50), Days(<<"T", "H">>))
\* the day letters are given in mixed case
sP == SectionData("30200", "Lec", OneInstr(Redekopp), "ZHS352",
                  HM(12, 30), HM(13, 50), Days(<<"t", "H">>))
sDis == SectionData("29950", "Dis", NoInstr, "SAL101",
                    HM(9, 0), HM(9, 50), Days(<<"F">>))
sLecture == SectionData("29960", "Lecture", OneInstr(Slocum), "THH301",
                        HM(14, 0), HM(15, 20), Days(<<"W">>))
sNoId == SectionData(NoId, "Lec", NoInstr, "N/A",
                     HM(8, 0), HM(8, 50), Days(<<"F">>))
\* malformed: no start_time and no end_time
sBadTime == SectionData("29970", "Lec", OneInstr(Slocum), "THH201",
                        NoTime, NoTime, Days(<<"M">>))
\* malformed: the instructor entry lacks its name fields
sBadInstr == SectionData("29980", "Lec", OneInstr(Nameless), "THH201",
                         HM(15, 0), HM(16, 0), Days(<<"F">>))
\* no meeting time and no meeting day
sTBA == SectionData("29990", "Lec", NoInstr, "TBA", TBA, TBA, Days(<<>>))
sTBA2 == SectionData("29991", "Lec", NoInstr, "TBA", TBA, TBA, NoDays)

c104(sects) == CourseData("CSCI", "104", "", "Data Structures", 4, sects)
c170(sects) == CourseData("CSCI", "170", "", "Discrete Methods", 4, sects)
c794(sects) == CourseData("CSCI", "794", "A", "Doctoral Dissertation", 2, sects)
ee109(sects) == CourseData("EE", "109", "", "Embedded Systems", 4, sects)

Replies(dept, t) ==
    CASE dept = "CSCI" /\ t = 20251 ->
           { NoReply,
             Reply(<<c104(<<sA, sDis>>)>>),
             Reply(<<c104(<<sA, sB>>), c170(<<sC, sNoId>>)>>) }
      [] dept = "CSCI" /\ t = 20253 ->
           { Reply(<<c104(<<sA, sBadTime>>), c170(<<sC>>)>>),
             Reply(<<c104(<<sLecture, sDis>>), c794(<<>>)>>),
             Reply(<<c104(<<sA, sC>>), ee109(<<sD>>)>>) }
      [] dept = "EE" /\ t = 20251 ->
           { Reply(<<ee109(<<sD, sTBA, sTBA2>>)>>),
             Reply(<<ee109(<<sBadInstr, sD>>)>>),
             Reply(<<>>) }
      [] dept = "EE" /\ t = 20253 ->
           { NoReply,
             Reply(<<ee109(<<sD>>)>>),
             Reply(<<ee109(<<sP>>), ee109(<<sD>>)>>) }
      [] OTHER -> { NoReply }

(***************************************************************************)
(* cache.py: class Cache. An operation takes the cache                     *)
(* c = [term, cached, courses, sections, log] and returns the cache after  *)
(* it with its outcome; out is "ok" or the exception that escapes.         *)
(***************************************************************************)
Cache ==
    [term |-> term, cached |-> cached, courses |-> courses,
     sections |-> sections, log |-> log]

\* Cache.__init__ (the directory it also reads, self.depts, is never used)
NewCache(t) ==
    [term |-> t, cached |-> {}, courses |-> <<>>, sections |-> <<>>,
     log |-> <<>>]

\* update_term as it would be if a change of term emptied the cache
update_term_reset(c, t) ==
    LET r == conv_term(t)
    IN  IF r.ok THEN [c |-> NewCache(r.val), out |-> "ok"]
        ELSE [c |-> c, out |-> "ValueError"]

\* Cache.update_term
update_term(c, t) ==
    LET r == conv_term(t)
    IN  IF r.ok THEN [c |-> [c EXCEPT !.term = r.val], out |-> "ok"]
        ELSE [c |-> c, out |-> "ValueError"]

\* the call of the external source by get_courses_dfs, line 70
Called(c, dept, raw) ==
    Append(c.log, [dept |-> dept, term |-> c.term, raw |-> raw])

\* retrieve as it would be without the test of line 149
retrieve_unchecked(c, dept, raw) ==
    Let(get_courses_dfs(raw, c.term), LAMBDA dfs :
      IF dfs.err # "none"
        THEN [c |-> [c EXCEPT !.cached = @ \cup {<<dept, c.term>>},
                              !.log = Called(c, dept, raw)],
              out |-> dfs.err]
        ELSE [c |-> [c EXCEPT !.cached = @ \cup {<<dept, c.term>>},
                              !.log = Called(c, dept, raw),
                              !.courses = @ \o dfs.courses,
                              !.sections = @ \o dfs.sections],
              out |-> "ok"])

\* retrieve as it would be if lines 156-157 assigned the new frames instead
\* of concatenating them to the tables
retrieve_replacing(c, dept, raw) ==
    IF <<dept, c.term>> \in c.cached THEN [c |-> c, out |-> "ok"]
    ELSE Let(get_courses_dfs(raw, c.term), LAMBDA dfs :
           IF dfs.err # "none"
             THEN [c |-> [c EXCEPT !.cached = @ \cup {<<dept, c.term>>},
                                   !.log = Called(c, dept, raw)],
                   out |-> dfs.err]
             ELSE [c |-> [c EXCEPT !.cached = @ \cup {<<dept, c.term>>},
                                   !.log = Called(c, dept, raw),
                                   !.courses = dfs.courses,
                                   !.sections = dfs.sections],
                   out |-> "ok"])

\* Cache.retrieve; raw is the reply the source gives if it is called
retrieve(c, dept, raw) ==
    IF <<dept, c.term>> \in c.cached THEN [c |-> c, out |-> "ok"]
    ELSE Let(get_courses_dfs(raw, c.term), LAMBDA dfs :
           IF dfs.err # "none"
             THEN [c |-> [c EXCEPT !.cached = @ \cup {<<dept, c.term>>},
                                   !.log = Called(c, dept, raw)],
                   out |-> dfs.err]
             ELSE [c |-> [c EXCEPT !.cached = @ \cup {<<dept, c.term>>},
                                   !.log = Called(c, dept, raw),
                                   !.courses = @ \o dfs.courses,
                                   !.sections = @ \o dfs.sections],
                   out |-> "ok"])

\* the filter of get_courses as it would be without the term test
CoursesOfAnyTerm(c, dept) ==
    SelectSeq(c.courses, LAMBDA row : row.dept = Upper(dept))

\* the filter of Cache.get_courses, lines 200-201
CoursesOf(c, dept) ==
    SelectSeq(SelectSeq(c.courses, LAMBDA row : row.term = c.term),
              LAMBDA row : row.dept = Upper(dept))

\* Cache.get_courses; rows are the rows the CSV is made of, out is "csv",
\* "empty" (the no-courses message) or the exception
\* the columns of the two tables, in their order (lines 87-113)
CourseColumns == <<"code", "dept", "term", "title", "description", "units">>
SectionColumns ==
    <<"id", "code", "dept", "term", "title", "instructor", "location",
      "start_time", "end_time", "day", "spaces_left", "number_registered",
      "spaces_available", "units">>

\* the columns dropped at line 260, and the same with the id
SectionsDroppedAndId == {"term", "dept", "code", "spaces_available", "id"}
SectionsDropped == {"term", "dept", "code", "spaces_available"}
\* the columns dropped at line 202
CoursesDropped == {"term", "dept"}

\* ret.drop(columns=...).to_csv(index=False, sep=","): the header and the
\* fields of each line
to_csv(rows, columns, dropped) ==
    LET kept == SelectSeq(columns, LAMBDA col : col \notin dropped)
    IN  [header |-> kept,
         lines |-> [i \in DOMAIN rows |->
                       [col \in Range(kept) |-> rows[i][col]]]]

get_courses(c, text, raw) ==
    Let(conv_dept(text), LAMBDA dept :
      IF dept = NoDept
        THEN [c |-> c, out |-> "DepartmentNotFound", rows |-> <<>>]
        ELSE Let(retrieve(c, dept, raw), LAMBDA r :
               IF r.out # "ok" THEN [c |-> r.c, out |-> r.out, rows |-> <<>>]
               ELSE Let(CoursesOf(r.c, dept), LAMBDA rows :
                      [c |-> r.c,
                       out |-> IF rows = <<>> THEN "empty" ELSE "csv",
                       rows |-> rows])))

\* the filter of Cache.get_sections, lines 258-259
\* the same without the filter on the term
SectionsOfAnyTerm(c, code) ==
    SelectSeq(c.sections, LAMBDA row : row.code = code)

SectionsOf(c, code) ==
    SelectSeq(SelectSeq(c.sections, LAMBDA row : row.term = c.term),
              LAMBDA row : row.code = code)

\* Cache.get_sections; code_split is course_code.split(" ")
get_sections(c, code_split, raw) ==
    Let(conv_dept(JoinWith(" ", SubSeq(code_split, 1, Len(code_split) - 1))),
        LAMBDA dept :
      IF dept = NoDept
        THEN [c |-> c, out |-> "DepartmentNotFound", rows |-> <<>>]
        ELSE Let(retrieve(c, dept, raw), LAMBDA r :
               IF r.out # "ok" THEN [c |-> r.c, out |-> r.out, rows |-> <<>>]
               ELSE Let(SectionsOf(r.c, Upper(dept) \o " "
                                        \o code_split[Len(code_split)]),
                        LAMBDA rows :
                      IF rows = <<>>
                        THEN [c |-> r.c, out |-> "CourseNotFound",
                              rows |-> <<>>]
                        ELSE [c |-> r.c, out |-> "csv", rows |-> rows])))

\* Cache.is_valid_section
is_valid_section(c, section) ==
    \E i \in DOMAIN c.sections : c.sections[i].id = section

\* Cache.get_section_data: the first row with the id
get_section_data(c, section) ==
    IF ~is_valid_section(c, section)
      THEN [out |-> "SectionNotFound", rows |-> <<>>]
      ELSE [out |-> "ok",
            rows |-> <<SelectSeq(c.sections,
                                 LAMBDA row : row.id = section)[1]>>]

(***************************************************************************)
(* The schedule assembler: Cache.sect_to_sched_dict and the error it       *)
(* raises.                                                                 *)
(***************************************************************************)
\* time_to_decimal: "HH:MM AM/PM" to the decimal hour (here in minutes);
\* text that is no time gives a sentinel, num = FALSE
time_to_decimal(t) ==
    IF t.k = "12h"
      THEN [num |-> TRUE,
            v |-> ((t.h % 12) + (IF t.ap = "PM" THEN 12 ELSE 0)) * 60 + t.m]
      ELSE [num |-> FALSE, v |-> 0]

Pad2(n) == IF n < 10 THEN "0" \o ToString(n) ELSE ToString(n)

\* the text of a start_time/end_time cell
TimeText(t) ==
    IF t.k = "12h" THEN Pad2(t.h) \o ":" \o Pad2(t.m) \o " " \o t.ap
    ELSE "TBA"

\* one element of the list of lines 309-318
Event(row) ==
    [label |-> row.code \o " - " \o row.id \o "<br>" \o row.instructor
               \o "<br>@" \o row.location,
     start_hour |-> time_to_decimal(row.start_time),
     end_hour |-> time_to_decimal(row.end_time),
     day |-> Split(row.day),
     hover |-> row.title \o " (" \o ToString(row.units) \o " un.)<br>"
               \o JoinWith(", ", row.day) \o ",  " \o TimeText(row.start_time)
               \o " - " \o TimeText(row.end_time)]

RECURSIVE MapEvents(_)
MapEvents(rows) ==
    IF rows = <<>> THEN <<>>
    ELSE <<Event(Head(rows))>> \o MapEvents(Tail(rows))

\* self.sections[self.sections["id"].isin(sections)]
RowsWithIds(c, ids) ==
    SelectSeq(c.sections, LAMBDA row : row.id \in Range(ids))

\* the list data of lines 309-318
Events(c, ids) == MapEvents(RowsWithIds(c, ids))

\* line 323
SharesDay(sect1, sect2) == Range(sect1.day) \cap Range(sect2.day) # {}

Numeric(sect) == sect.start_hour.num /\ sect.end_hour.num

\* the test of lines 324-327 as it would be with < for <=
OverlapsOrTouches(sect1, sect2) ==
    ~(sect1.end_hour.v < sect2.start_hour.v
      \/ sect2.end_hour.v < sect1.start_hour.v)

\* lines 324-327, for hours that are numbers
Overlaps(sect1, sect2) ==
    ~(sect1.end_hour.v <= sect2.start_hour.v
      \/ sect2.end_hour.v <= sect1.start_hour.v)

\* ScheduleConflictError.__init__: the exceptions that can leave
\* raise ScheduleConflictError(sect1, sect2). section_1['start_hour'][0]
\* subscripts a number (TypeError); could a sentinel be subscripted, the
\* key "days" is still missing from the event (KeyError).
ScheduleConflictError(section_1, section_2) ==
    IF section_1.start_hour.num THEN {"TypeError"}
    ELSE {"TypeError", "KeyError"}

\* the pairs the loops of lines 321-322 visit, in their order
PairsOf(data) == {p \in (DOMAIN data) \X (DOMAIN data) : p[1] < p[2]}
Before(p, q) == p[1] < q[1] \/ (p[1] = q[1] /\ p[2] < q[2])

\* the pairs that the test of lines 323-327 finds in conflict
Sure(data) ==
    {p \in PairsOf(data) :
        /\ SharesDay(data[p[1]], data[p[2]])
        /\ Numeric(data[p[1]]) /\ Numeric(data[p[2]])
        /\ Overlaps(data[p[1]], data[p[2]])}

\* the pairs that share a day and have a sentinel hour: the comparison of
\* lines 325-326 may raise, or decide either way
Unsure(data) ==
    {p \in PairsOf(data) :
        /\ SharesDay(data[p[1]], data[p[2]])
        /\ ~(Numeric(data[p[1]]) /\ Numeric(data[p[2]]))}

\* the exceptions that may leave the loops of lines 321-328: the error of
\* the first pair in conflict, or of an unsure pair before it
Raised(data, sure, unsure) ==
    UNION {ScheduleConflictError(data[p[1]], data[p[2]]) :
             p \in {q \in sure \cup unsure :
                      \A q2 \in sure : q = q2 \/ Before(q, q2)}}
    \cup (IF \E q \in unsure : \A q2 \in sure : Before(q, q2)
            THEN {"TypeError"} ELSE {})

\* Cache.sect_to_sched_dict: the set of its possible results; with numeric
\* hours there is one
sect_to_sched_dict(c, ids) ==
    IF \E i \in DOMAIN ids : ~is_valid_section(c, ids[i])
      THEN {[out |-> "SectionNotFound", rows |-> <<>>]}
      ELSE Let(Events(c, ids), LAMBDA data :
             Let(Sure(data), LAMBDA sure :
               {[out |-> e, rows |-> <<>>] :
                   e \in Raised(data, sure, Unsure(data))}
               \cup (IF sure = {} THEN {[out |-> "ok", rows |-> data]}
                     ELSE {})))

\* Cache.get_sections_data
get_sections_data(c, ids) ==
    IF \E i \in DOMAIN ids : ~is_valid_section(c, ids[i])
      THEN [out |-> "SectionNotFound", rows |-> <<>>]
      ELSE [out |-> "ok", rows |-> RowsWithIds(c, ids)]

(***************************************************************************)
(* ui/schedule.py create_schedule and the tools of LangChainModel          *)
(* (model/langchain_model.py). The model m = [c, section_ids, fig,         *)
(* fig_created] is the Cache c with the session's schedule; fig is the     *)
(* list of events the figure shows. A tool returns the model after the     *)
(* call with its outcome: out is "ok" or the exception that escapes.       *)
(***************************************************************************)
\* the days of create_schedule (schedule.py, days)
WeekDays == {"Sun", "Mon", "Tue", "Wed", "Thu", "Fri", "Sat"}

RECURSIVE Slots(_)
\* the (event, day) pairs create_schedule draws, in its order
Slots(events) ==
    IF events = <<>> THEN <<>>
    ELSE [i \in DOMAIN Head(events).day |->
             [e |-> Head(events), day |-> Head(events).day[i]]]
         \o Slots(Tail(events))

RECURSIVE Draw(_)
\* the outcomes of drawing the pairs: day_to_index[day] raises KeyError for
\* a day that is no week day; (y0 + y1) / 2 on a sentinel hour may raise
Draw(slots) ==
    IF slots = <<>> THEN {"ok"}
    ELSE IF Head(slots).day \notin WeekDays THEN {"KeyError"}
    ELSE IF ~Numeric(Head(slots).e) THEN {"TypeError"} \cup Draw(Tail(slots))
    ELSE Draw(Tail(slots))

\* create_schedule(events): the set of its possible outcomes
create_schedule(events) == Draw(Slots(events))

\* self.cache, self.section_ids, self.fig, self.fig_created
Model(c, ids, shown, created) ==
    [c |-> c, section_ids |-> ids, fig |-> shown, fig_created |-> created]

\* LangChainModel.__init__: Cache() is the cache of conv_term(None)
NewModel == Model(NewCache(DefaultTerm), <<>>, <<>>, FALSE)

RECURSIVE tool_get_courses(_, _, _)
\* the tool get_courses; depts is dept.split(","), raws gives the reply of
\* the source for a department code if it is called. rows are the parts of
\* the returned text, one for each department
tool_get_courses(c, depts, raws) ==
    IF depts = <<>> THEN [c |-> c, out |-> "ok", rows |-> <<>>]
    ELSE
      LET dept == Strip(Head(depts))
      IN  Let(fuzzy_match_dept(dept), LAMBDA matched :
            IF matched = NoDept
              THEN [c |-> c, out |-> "DepartmentNotFound", rows |-> <<>>]
            ELSE Let(get_courses(c, matched, raws[matched]), LAMBDA temp :
              IF temp.out \notin {"csv", "empty"}
                THEN [c |-> temp.c, out |-> temp.out, rows |-> <<>>]
              ELSE Let(tool_get_courses(temp.c, Tail(depts), raws),
                       LAMBDA rest :
                IF rest.out # "ok" THEN rest
                ELSE [c |-> rest.c, out |-> "ok",
                      rows |-> <<[text |-> Str(dept), matched |-> matched,
                                  caveat |-> matched
                                     # conv_dept_with(Str(Strip(dept)), TRUE),
                                  temp |-> temp.out,
                                  found |-> temp.rows]>> \o rest.rows])))

RECURSIVE tool_get_sections(_, _, _)
\* the tool get_sections; texts is course.split(",")
tool_get_sections(c, texts, raws) ==
    IF texts = <<>> THEN [c |-> c, out |-> "ok", rows |-> <<>>]
    ELSE
      LET course == Strip(Head(texts))
      IN  Let(fuzzy_match_course(course), LAMBDA matched :
            IF ~matched.ok
              THEN [c |-> c, out |-> "CourseNotFound", rows |-> <<>>]
            ELSE Let(get_sections(c, <<matched.dept, matched.num>>,
                                  raws[matched.dept]), LAMBDA temp :
              IF temp.out # "csv"
                THEN [c |-> temp.c, out |-> temp.out, rows |-> <<>>]
              ELSE Let(tool_get_sections(temp.c, Tail(texts), raws),
                       LAMBDA rest :
                IF rest.out # "ok" THEN rest
                ELSE [c |-> rest.c, out |-> "ok",
                      rows |-> <<[text |-> Str(course),
                                  matched |-> matched.dept \o " "
                                              \o matched.num,
                                  caveat |-> Str(NoSpaces(UpperChars(
                                                 Strip(course))))
                                     # matched.dept \o matched.num,
                                  temp |-> temp.out,
                                  found |-> temp.rows]>> \o rest.rows])))

\* the tool get_departments: the directory of the active term,
\* get_depts(self.cache.term) with code_is_key=True
simple_get_depts(c) ==
    {[code |-> Lower(r.code), name |-> Lower(r.title)] :
        r \in DirectoryPage(c.term)}

\* an element of the list given to add_sections_to_schedule or
\* remove_sections_from_schedule: a section id, or other text with its
\* characters
IdArg(id) == [id |-> id, chars |-> <<>>]
TextArg(cs) == [id |-> Str(cs), chars |-> cs]

\* re.match(r"[A-Z]{2,4}\s*\d{3}[A-Z]?", text) of lines 160 and 200 as the
\* lengths of its parts; a section id has no letter and never matches
SectionPatternMatches(cs) ==
    {m \in [n : 2..4, w : 0..Len(cs), l : 0..1] :
        /\ AllIn(cs, 1, m.n, Range(UpperCase))
        /\ AllIn(cs, m.n + 1, m.n + m.w, {" "})
        /\ AllIn(cs, m.n + m.w + 1, m.n + m.w + 3, DigitChars)
        /\ AllIn(cs, m.n + m.w + 4, m.n + m.w + 3 + m.l, Range(UpperCase))}

\* regex.group(): the matched prefix, <<>> when there is no match
SectionPatternGroup(cs) ==
    Let(SectionPatternMatches(cs), LAMBDA found :
      IF found = {} THEN <<>>
      ELSE LET m == CHOOSE x \in found : \A y \in found :
                       x = y \/ x.n > y.n \/ (x.n = y.n /\ x.w > y.w)
                       \/ (x.n = y.n /\ x.w = y.w /\ x.l > y.l)
           IN  SubSeq(cs, 1, m.n + m.w + 3 + m.l))

\* the course an argument names, for the messages of lines 160-175 and
\* 200-213: NoCourse when the pattern or the resolver fails
ArgCourse(arg) ==
    IF SectionPatternGroup(arg.chars) = <<>> THEN NoCourse
    ELSE fuzzy_match_course(SectionPatternGroup(arg.chars))

RECURSIVE IdsOf(_)
IdsOf(args) ==
    IF args = <<>> THEN <<>> ELSE <<Head(args).id>> \o IdsOf(Tail(args))

\* the list given to sect_to_sched_dict, were only the sections of this call
\* checked
ScheduleArgNewOnly(ids, valid) == valid

\* the list given to sect_to_sched_dict at line 149
ScheduleArg(ids, valid) == ids

\* lines 148-151 and 225-228: build the schedule of the ids and show it; the
\* set of the possible outcomes
Rebuild(m, ids, checked) ==
    UNION { IF res.out # "ok"
              THEN {[m |-> [m EXCEPT !.section_ids = ids], out |-> res.out]}
              ELSE { IF d # "ok"
                       THEN [m |-> [m EXCEPT !.section_ids = ids], out |-> d]
                       ELSE [m |-> Model(m.c, ids, res.rows, TRUE),
                             out |-> "ok"] :
                     d \in create_schedule(res.rows) } :
            res \in sect_to_sched_dict(m.c, checked) }

RECURSIVE AddErrors(_, _, _)
\* the loop of lines 159-175 over the invalid arguments: get_sections of
\* line 173 may call the source and may raise
AddErrors(c, invalid, raws) ==
    IF invalid = <<>> THEN [c |-> c, out |-> "ok"]
    ELSE Let(ArgCourse(Head(invalid)), LAMBDA course :
           IF ~course.ok THEN AddErrors(c, Tail(invalid), raws)
           ELSE Let(get_sections(c, <<course.dept, course.num>>,
                                 raws[course.dept]), LAMBDA temp :
                  IF temp.out # "csv" THEN [c |-> temp.c, out |-> temp.out]
                  ELSE AddErrors(temp.c, Tail(invalid), raws)))

\* the tool add_sections_to_schedule; secs is the list sections of line 136.
\* The set of the possible results
add_sections_to_schedule(m, secs, raws) ==
    LET valid == IdsOf(SelectSeq(secs,
                     LAMBDA sec : is_valid_section(m.c, sec.id)))
        invalid == SelectSeq(secs,
                     LAMBDA sec : ~is_valid_section(m.c, sec.id))
        ids == m.section_ids \o valid
        built == IF valid = <<>> THEN {[m |-> m, out |-> "ok"]}
                 ELSE Rebuild(m, ids, ScheduleArg(ids, valid))
    IN  { IF b.out # "ok"
            THEN [m |-> b.m, out |-> b.out, valid |-> valid, built |-> b.out]
            ELSE Let(AddErrors(b.m.c, invalid, raws), LAMBDA e :
                   [m |-> [b.m EXCEPT !.c = e.c], out |-> e.out,
                    valid |-> valid, built |-> "ok"]) :
          b \in built }

RECURSIVE RemoveFirst(_, _)
\* list.remove(x)
RemoveFirst(ids, x) ==
    IF ids = <<>> THEN <<>>
    ELSE IF Head(ids) = x THEN Tail(ids)
    ELSE <<Head(ids)>> \o RemoveFirst(Tail(ids), x)

\* the dict of lines 186-188: the course code of a section of the schedule
\* to the last section id of the schedule with that code
existing_sections(m) ==
    [code \in {get_section_data(m.c, m.section_ids[i]).rows[1].code :
                  i \in DOMAIN m.section_ids} |->
        m.section_ids[CHOOSE i \in DOMAIN m.section_ids :
            /\ get_section_data(m.c, m.section_ids[i]).rows[1].code = code
            /\ \A j \in DOMAIN m.section_ids :
                  get_section_data(m.c, m.section_ids[j]).rows[1].code = code
                  => j <= i]]

RECURSIVE RemoveLoop(_, _, _, _)
\* the loop of lines 192-222: the ids left, the ids removed and whether an
\* argument was refused; list.remove of an id no longer in the list raises
RemoveLoop(existing, ids, secs, valid) ==
    IF secs = <<>> THEN [ids |-> ids, valid |-> valid, out |-> "ok"]
    ELSE LET sec == Head(secs)
         IN  IF sec.id \in Range(ids)
               THEN RemoveLoop(existing, RemoveFirst(ids, sec.id),
                               Tail(secs), Append(valid, sec.id))
             ELSE Let(ArgCourse(sec), LAMBDA course :
               IF ~course.ok
                    \/ (course.dept \o " " \o course.num)
                          \notin DOMAIN existing
                 THEN RemoveLoop(existing, ids, Tail(secs), valid)
               ELSE Let(existing[course.dept \o " " \o course.num],
                        LAMBDA id :
                 IF id \notin Range(ids)
                   THEN [ids |-> ids, valid |-> valid, out |-> "ValueError"]
                 ELSE RemoveLoop(existing, RemoveFirst(ids, id),
                                 Tail(secs), Append(valid, id))))

\* the tool remove_sections_from_schedule: the set of the possible results
remove_sections_from_schedule(m, secs) ==
    IF \E i \in DOMAIN m.section_ids :
          ~is_valid_section(m.c, m.section_ids[i])
      THEN {[m |-> m, out |-> "SectionNotFound", valid |-> <<>>]}
    ELSE Let(RemoveLoop(existing_sections(m), m.section_ids, secs, <<>>),
             LAMBDA r :
           IF r.out # "ok"
             THEN {[m |-> [m EXCEPT !.section_ids = r.ids], out |-> r.out,
                    valid |-> r.valid]}
           ELSE IF r.valid = <<>>
             THEN {[m |-> m, out |-> "ok", valid |-> <<>>]}
           ELSE {[m |-> b.m, out |-> b.out, valid |-> r.valid] :
                   b \in Rebuild(m, r.ids, r.ids)})

\* the tool remove_all_sections
remove_all_sections(m) == [m |-> Model(m.c, <<>>, <<>>, FALSE), out |-> "ok"]

(***************************************************************************)
(* The state machine: one Cache and the calls made on it.                  *)
(***************************************************************************)
CourseTexts ==
    { <<"CSCI", "104">>, <<"csci", "170">>, <<"Computer", "Science", "104">>,
      <<"EE", "109">>, <<"CSCI104">>, <<"CSCI", "999">>, <<"MATH", "125">> }

\* one id stands for every id that no row has
AbsentId == "00000"
IdInputs == {sections[i].id : i \in DOMAIN sections} \cup {AbsentId}
\* one list for every set of at most MaxIds ids: the code only tests
\* membership in the list it is given (cache.py lines 306, 317, 407, 409)
ListOf(S) == CHOOSE f \in [1..Cardinality(S) -> S] : Range(f) = S
IdLists == {ListOf(S) : S \in {T \in SUBSET IdInputs : Cardinality(T) <= MaxIds}}

CourseDept(code_split) ==
    conv_dept(JoinWith(" ", SubSeq(code_split, 1, Len(code_split) - 1)))

\* the source is called only while the model's bound allows
MayFetch(dept) ==
    dept = NoDept \/ <<dept, term>> \in cached \/ Len(log) < MaxFetches

\* the state after a call, with what the caller saw of it: the outcome, the
\* rows returned and whether the external source was called
SetCache(c, op, arg, out, rows) ==
    /\ term' = c.term
    /\ cached' = c.cached
    /\ courses' = c.courses
    /\ sections' = c.sections
    /\ log' = c.log
    /\ ret' = [op |-> op, arg |-> arg, out |-> out, rows |-> rows,
               fetched |-> Len(c.log) > Len(log)]

\* a call on the Cache alone
Set(c, op, arg, out, rows) ==
    /\ SetCache(c, op, arg, out, rows)
    /\ UNCHANGED <<section_ids, fig, fig_created>>

\* a call of a tool of the LangChainModel
SetModel(m, op, arg, out, rows) ==
    /\ SetCache(m.c, op, arg, out, rows)
    /\ section_ids' = m.section_ids
    /\ fig' = m.fig
    /\ fig_created' = m.fig_created

Init ==
    /\ term \in Terms
    /\ cached = {}
    /\ courses = <<>>
    /\ sections = <<>>
    /\ log = <<>>
    /\ ret = [op |-> "init", arg |-> <<>>, out |-> "ok", rows |-> <<>>,
              fetched |-> FALSE]
    /\ section_ids = <<>>
    /\ fig = <<>>
    /\ fig_created = FALSE

UpdateTerm ==
    \E t \in TermInputs :
        \E r \in {update_term(Cache, t)} :
            Set(r.c, "update_term", t, r.out, <<>>)

Retrieve ==
    \E dept \in DeptCodes :
        /\ MayFetch(dept)
        /\ \E raw \in Replies(dept, term) :
              \E r \in {retrieve(Cache, dept, raw)} :
                  Set(r.c, "retrieve", dept, r.out, <<>>)

GetCourses ==
    \E text \in DeptTexts :
        \E dept \in {conv_dept(text)} :
            /\ MayFetch(dept)
            /\ \E raw \in Replies(dept, term) :
                  \E r \in {get_courses(Cache, text, raw)} :
                      Set(r.c, "get_courses", text, r.out, r.rows)

GetSections ==
    \E code_split \in CourseTexts :
        \E dept \in {CourseDept(code_split)} :
            /\ MayFetch(dept)
            /\ \E raw \in Replies(dept, term) :
                  \E r \in {get_sections(Cache, code_split, raw)} :
                      Set(r.c, "get_sections", code_split, r.out, r.rows)

\* is_valid_section, get_section_data, get_sections_data and
\* sect_to_sched_dict assign no attribute of the Cache and call neither
\* retrieve nor the source (cache.py 304-331, 352, 382-385, 406-409)
IsValidSection ==
    \E id \in IdInputs :
        Set(Cache, "is_valid_section", id,
            IF is_valid_section(Cache, id) THEN "True" ELSE "False", <<>>)

GetSectionData ==
    \E id \in IdInputs :
        \E r \in {get_section_data(Cache, id)} :
            Set(Cache, "get_section_data", id, r.out, r.rows)

GetSectionsData ==
    \E ids \in IdLists :
        \E r \in {get_sections_data(Cache, ids)} :
            Set(Cache, "get_sections_data", ids, r.out, r.rows)

SectToSchedDict ==
    \E ids \in IdLists :
        \E r \in sect_to_sched_dict(Cache, ids) :
            Set(Cache, "sect_to_sched_dict", ids, r.out, r.rows)

\* the calls that can change the cache
Next ==
    \/ UpdateTerm
    \/ Retrieve
    \/ GetCourses
    \/ GetSections

\* every call of the Cache
CallsNext ==
    \/ UpdateTerm
    \/ Retrieve
    \/ GetCourses
    \/ GetSections
    \/ IsValidSection
    \/ GetSectionData
    \/ GetSectionsData
    \/ SectToSchedDict

Calls == Init /\ [][CallsNext]_vars

Spec == Init /\ [][Next]_vars

(***************************************************************************)
(* The session: one LangChainModel and the tool calls the agent makes.     *)
(***************************************************************************)
\* texts given to the tool get_courses; "ce" is at similarity 0.5 of "ee",
\* "eng" at less of every candidate
ToolDeptTexts ==
    {Chars(s) : s \in {"CSCI", " csci ", "EE", "Computer Science",
                       "Computr Scienc", "CSCU", "ce", "eng"}}

ToolDeptLists ==
    {<<Chars(s)>> : s \in {"CSCI", " csci ", "Computr Scienc", "ce", "eng"}}
        \cup {<<Chars("CSCI"), Chars("EE")>>}

\* texts given to the tool get_sections
ToolCourseLists ==
    {<<Chars(s)>> : s \in {"CSCI 104", "csci 0104", "XYZ 104", "COMPS 104"}}
        \cup {<<Chars("CSCI104"), Chars("EE 109")>>}

\* the replies the source gives to this call, for each department code
SessionReplies(dept) ==
    Replies(dept, term)
        \cap {NoReply, Reply(<<c104(<<sA, sB>>), c170(<<sC, sNoId>>)>>),
              Reply(<<ee109(<<sD, sTBA, sTBA2>>)>>)}
\* the source is called only for a department the call names, and only if
\* it was not called for it before: no other reply is an input of the call
RawsFor(named) ==
    {raws \in [DeptCodes -> UNION {SessionReplies(d) : d \in DeptCodes}] :
      \A d \in DeptCodes :
        IF d \in named /\ <<d, term>> \notin cached
          THEN raws[d] \in SessionReplies(d)
          ELSE raws[d] = NoReply}

\* lists given to the tools add_sections_to_schedule and
\* remove_sections_from_schedule
\* ids to add: one list for every set of at most MaxIds ids, an id twice,
\* and a course code in the place of an id
AddArgLists ==
    {[i \in DOMAIN ids |-> IdArg(ids[i])] : ids \in IdLists \ {<<>>}}
        \cup {<<IdArg(id), IdArg(id)>> : id \in {"29903"}}
        \cup {<<TextArg(Chars("CSCI 104"))>>, <<TextArg(Chars("XYZ 104"))>>}
\* ids to remove: an id of the schedule, one that is not in it, and a course
\* code
RemoveArgLists ==
    {<<IdArg(id)>> : id \in Range(section_ids) \cup {AbsentId}}
        \cup {<<TextArg(Chars("CSCI 104"))>>, <<TextArg(Chars("XYZ 104"))>>}

\* the session's model
TheModel == Model(Cache, section_ids, fig, fig_created)

SessionInit ==
    /\ term = NewModel.c.term
    /\ cached = NewModel.c.cached
    /\ courses = NewModel.c.courses
    /\ sections = NewModel.c.sections
    /\ log = NewModel.c.log
    /\ section_ids = NewModel.section_ids
    /\ fig = NewModel.fig
    /\ fig_created = NewModel.fig_created
    /\ ret = [op |-> "init", arg |-> <<>>, out |-> "ok", rows |-> <<>>,
              fetched |-> FALSE]

ToolGetCourses ==
    \E depts \in ToolDeptLists :
      \E raws \in RawsFor({fuzzy_match_dept(depts[i]) : i \in DOMAIN depts}) :
        \E r \in {tool_get_courses(Cache, depts, raws)} :
            SetModel([TheModel EXCEPT !.c = r.c], "tool_get_courses", depts,
                     r.out, r.rows)

ToolGetSections ==
    \E texts \in ToolCourseLists :
      \E raws \in RawsFor({fuzzy_match_course(Strip(texts[i])).dept :
                              i \in DOMAIN texts}) :
        \E r \in {tool_get_sections(Cache, texts, raws)} :
            SetModel([TheModel EXCEPT !.c = r.c], "tool_get_sections", texts,
                     r.out, r.rows)

AddSections ==
    \E secs \in AddArgLists :
      \E raws \in RawsFor({ArgCourse(secs[i]).dept : i \in DOMAIN secs}) :
        /\ Len(section_ids) + Len(secs) <= MaxSchedule
        /\ \E r \in add_sections_to_schedule(TheModel, secs, raws) :
              SetModel(r.m, "add_sections", <<>>, r.out,
                       <<[valid |-> r.valid, built |-> r.built]>>)

RemoveSections ==
    \E secs \in RemoveArgLists :
        \E r \in remove_sections_from_schedule(TheModel, secs) :
            SetModel(r.m, "remove_sections", <<>>, r.out,
                     <<[valid |-> r.valid]>>)

RemoveAllSections ==
    \E r \in {remove_all_sections(TheModel)} :
        SetModel(r.m, "remove_all_sections", <<>>, r.out, <<>>)

SessionNext ==
    \/ ToolGetCourses
    \/ ToolGetSections
    \/ AddSections
    \/ RemoveSections
    \/ RemoveAllSections

Session == SessionInit /\ [][SessionNext]_vars

(***************************************************************************)
(* The claims.                                                             *)
(***************************************************************************)
LogPair(e) == <<e.dept, e.term>>
FetchesOf(pair) == {i \in DOMAIN log : LogPair(log[i]) = pair}

(* C1: over any calls of retrieve, get_courses, get_sections and           *)
(* update_term the external source is called at most once per              *)
(* (department, term) pair: a pair marked fetched has exactly one call,    *)
(* any other pair none, and retrieve of a pair already fetched changes     *)
(* nothing and calls nothing.                                              *)
C1_FetchedAtMostOnce ==
    /\ \A dept \in DeptCodes, t \in Terms :
          Cardinality(FetchesOf(<<dept, t>>))
            = (IF <<dept, t>> \in cached THEN 1 ELSE 0)
    /\ \A dept \in DeptCodes :
          <<dept, term>> \in cached =>
             \A raw \in Replies(dept, term) :
                retrieve(Cache, dept, raw) = [c |-> Cache, out |-> "ok"]
    /\ (ret.op = "retrieve" /\ ~ret.fetched) =>
          Cardinality(FetchesOf(<<ret.arg, term>>)) = 1

\* a second retrieve of a department under the same term has returned
C1_Witness ==
    /\ ret.op = "retrieve"
    /\ ~ret.fetched
    /\ <<ret.arg, term>> \in cached
    /\ Len(log) = 1

(* C2: when the external fetch or its parsing fails during retrieve(dept), *)
(* the fetched-pairs set and both tables are left as they were before the  *)
(* call, so that retrieve(dept) called again fetches again.                *)
C2_FailedFetchLeavesCache ==
    [][(ret'.op = "retrieve" /\ ret'.fetched /\ ret'.out # "ok")
         => (cached' = cached /\ courses' = courses /\ sections' = sections)]_vars

(* C3: update_term changes only the active term: no row of Courses or      *)
(* Sections, no fetched pair and no call of the source is added, removed   *)
(* or changed, and after switching to another term and back get_courses of *)
(* a department already retrieved returns what it returned before, without *)
(* a new fetch.                                                            *)
C3_UpdateTermKeepsData ==
    \A t \in TermInputs :
        \E r \in {update_term(Cache, t)} :
            /\ r.c.courses = courses
            /\ r.c.sections = sections
            /\ r.c.cached = cached
            /\ r.c.log = log
            /\ r.c.term = (IF conv_term(t).ok THEN conv_term(t).val ELSE term)
            /\ \E back \in {update_term(r.c, IntTerm(term))} :
                  \A text \in DeptTexts :
                     <<conv_dept(text), term>> \in cached =>
                        \A raw \in Replies(conv_dept(text), term) :
                        \E again \in {get_courses(back.c, text, raw)} :
                           /\ again = get_courses(Cache, text, raw)
                           /\ again.c.log = log

\* the term was switched back to one under which a department is cached,
\* while rows of another term are in the tables
C3_Witness ==
    /\ ret.op = "update_term"
    /\ ret.out = "ok"
    /\ \E p \in cached : p[2] = term
    /\ \E i \in DOMAIN courses : courses[i].term # term
    /\ \E i \in DOMAIN courses : courses[i].term = term

(* C4: every row get_courses(d) returns has the active term and the        *)
(* resolved code of d as its department, and every row get_sections(c)     *)
(* returns has the active term and the resolved code of c as its course    *)
(* code, whatever else the tables hold.                                    *)
C4_RowsOfActiveTerm ==
    /\ ret.op = "get_courses" =>
          \A i \in DOMAIN ret.rows :
             /\ ret.rows[i].term = term
             /\ ret.rows[i].dept = conv_dept(ret.arg)
    /\ ret.op = "get_sections" =>
          \A i \in DOMAIN ret.rows :
             /\ ret.rows[i].term = term
             /\ ret.rows[i].code
                  = CourseDept(ret.arg) \o " " \o ret.arg[Len(ret.arg)]

\* get_courses returned rows while the table also holds rows of another
\* term and, for the active term, rows of another department
C4_Witness ==
    /\ ret.op = "get_courses"
    /\ ret.rows # <<>>
    /\ \E i \in DOMAIN courses : courses[i].term # term
    /\ \E i \in DOMAIN courses :
          courses[i].term = term /\ courses[i].dept # conv_dept(ret.arg)

\* the section ids of the rows of the active term
ActiveIds == {sections[i].id : i \in {j \in DOMAIN sections :
                                         sections[j].term = term}}

(* C5: a section id is accepted only if a Sections row of the active term  *)
(* has it: for any other id is_valid_section is false and                  *)
(* get_section_data, get_sections_data and sect_to_sched_dict fail with    *)
(* SectionNotFound.                                                        *)
C5_ValidOnlyInActiveTerm ==
    \A id \in IdInputs \ ActiveIds :
        /\ ~is_valid_section(Cache, id)
        /\ get_section_data(Cache, id).out = "SectionNotFound"
        /\ get_sections_data(Cache, <<id>>).out = "SectionNotFound"
        /\ \A r \in sect_to_sched_dict(Cache, <<id>>) :
              r.out = "SectionNotFound"

\* the id lists whose ids all are in the Sections table
ValidLists ==
    {ids \in IdLists : \A i \in DOMAIN ids : is_valid_section(Cache, ids[i])}

\* two built events in conflict, in the words of the claim
C6_Conflict(e1, e2) ==
    /\ Range(e1.day) \cap Range(e2.day) # {}
    /\ ~(e1.end_hour.v <= e2.start_hour.v)
    /\ ~(e2.end_hour.v <= e1.start_hour.v)

C6_Touch(e1, e2) ==
    e1.end_hour.v = e2.start_hour.v \/ e2.end_hour.v = e1.start_hour.v

(* C6: sect_to_sched_dict rejects a list of valid section ids if and only  *)
(* if two of the built events share a day and have hour intervals with     *)
(* neither end1 <= start2 nor end2 <= start1; otherwise it returns the     *)
(* built events. (Stated for events whose hours are numbers.)              *)
C6_RejectsIffConflict ==
    \A ids \in ValidLists :
        \E data \in {Events(Cache, ids)} :
            (\A i \in DOMAIN data : Numeric(data[i])) =>
                \E res \in {sect_to_sched_dict(Cache, ids)} :
                    IF \E i, j \in DOMAIN data :
                          i < j /\ C6_Conflict(data[i], data[j])
                      THEN res # {} /\ \A r \in res : r.out # "ok"
                      ELSE res = {[out |-> "ok", rows |-> data]}

\* in one state a pair that touches on a shared day and a pair that
\* overlaps on disjoint days are accepted, and a pair in conflict is rejected
C6_Witness ==
    /\ \E ids \in ValidLists :
          \E data \in {Events(Cache, ids)} :
             /\ Len(data) = 2 /\ Numeric(data[1]) /\ Numeric(data[2])
             /\ SharesDay(data[1], data[2]) /\ C6_Touch(data[1], data[2])
             /\ sect_to_sched_dict(Cache, ids) = {[out |-> "ok", rows |-> data]}
    /\ \E ids \in ValidLists :
          \E data \in {Events(Cache, ids)} :
             /\ Len(data) = 2 /\ Numeric(data[1]) /\ Numeric(data[2])
             /\ ~SharesDay(data[1], data[2])
             /\ data[1].start_hour.v < data[2].end_hour.v
             /\ data[2].start_hour.v < data[1].end_hour.v
             /\ sect_to_sched_dict(Cache, ids) = {[out |-> "ok", rows |-> data]}
    /\ \E ids \in ValidLists :
          \E data \in {Events(Cache, ids)} :
             /\ Len(data) = 2 /\ C6_Conflict(data[1], data[2])
             /\ Numeric(data[1]) /\ Numeric(data[2])
             /\ \A r \in sect_to_sched_dict(Cache, ids) : r.out # "ok"

(* C7: whenever two selected sections conflict, sect_to_sched_dict fails   *)
(* with ScheduleConflictError: building that error from the two events     *)
(* succeeds and no other error escapes in its place.                       *)
C7_ConflictRaisesScheduleConflict ==
    \A ids \in ValidLists :
        \E data \in {Events(Cache, ids)} :
            (\E i, j \in DOMAIN data :
                /\ i < j /\ Numeric(data[i]) /\ Numeric(data[j])
                /\ C6_Conflict(data[i], data[j]))
            => \A r \in sect_to_sched_dict(Cache, ids) :
                  r.out = "ScheduleConflictError"

\* a section record whose conversions all succeed
WellFormed(cd, sd) == SectionRow(cd, sd, 0).err = "none"

(* C8: a malformed section record is skipped without aborting the fetch:   *)
(* after a fetch the source answered, every course of the reply and every  *)
(* well-formed lecture section with an id is a row of the tables.          *)
C8_MalformedRecordSkipped ==
    \A k \in DOMAIN log :
        log[k].raw.ok =>
            \A cd \in Range(log[k].raw.course) :
                /\ CourseRow(cd, log[k].term) \in Range(courses)
                /\ \A sd \in Range(cd.SectionData) :
                      (sd.type = "Lec" /\ sd.id # NoId /\ WellFormed(cd, sd))
                      => SectionRow(cd, sd, log[k].term).row \in Range(sections)

(* C9: ingest makes a Section row of a source section record if and only   *)
(* if its type is "Lecture" or "Lec" and it has a section id. (Stated for  *)
(* the replies whose records all are well formed.)                         *)
C9_RowIffLectureWithId ==
    \A k \in DOMAIN log :
        (/\ log[k].raw.ok
         /\ \A cd \in Range(log[k].raw.course) :
               \A sd \in Range(cd.SectionData) : WellFormed(cd, sd))
        => \A cd \in Range(log[k].raw.course) :
              \A sd \in Range(cd.SectionData) :
                 (\E i \in DOMAIN sections :
                     /\ sections[i].id = sd.id
                     /\ sections[i].code = CourseCode(cd)
                     /\ sections[i].term = log[k].term)
                 <=> (sd.type \in {"Lecture", "Lec"} /\ sd.id # NoId)

(* C10: every row of the Sections table has a course code that matches     *)
(* exactly one row of the Courses table of the same term.                  *)
C10_SectionHasOneCourse ==
    \A i \in DOMAIN sections :
        Cardinality({j \in DOMAIN courses :
                        /\ courses[j].code = sections[i].code
                        /\ courses[j].term = sections[i].term}) = 1

(***************************************************************************)
(* The tools of the session.                                               *)
(***************************************************************************)
\* the last call was add_sections_to_schedule and it added an id
AddedSome ==
    ret.op = "add_sections" /\ ret.rows[1].valid # <<>>

(* C11: every add_sections_to_schedule call that adds an id runs the       *)
(* conflict detection over the whole updated schedule, the ids of earlier  *)
(* calls included: the schedule is built if and only if no two events of   *)
(* the updated section_ids are in conflict. (Stated for events whose hours *)
(* are numbers.)                                                           *)
C11_AddChecksFullSchedule ==
    AddedSome =>
        \E data \in {Events(Cache, section_ids)} :
            (\A i \in DOMAIN data : Numeric(data[i])) =>
                (ret.rows[1].built = "ok"
                    <=> ~\E i, j \in DOMAIN data :
                            i < j /\ C6_Conflict(data[i], data[j]))

\* a call adds one id that is in conflict with an id of an earlier call, and
\* is refused
C11_Witness ==
    /\ AddedSome
    /\ Len(ret.rows[1].valid) = 1
    /\ Len(section_ids) = 2
    /\ section_ids[1] # section_ids[2]
    /\ \E data \in {Events(Cache, section_ids)} :
          /\ Len(data) = 2 /\ Numeric(data[1]) /\ Numeric(data[2])
          /\ C6_Conflict(data[1], data[2])
    /\ ret.rows[1].built # "ok"

(* C12: the tool get_courses attaches the "could not be found, did you     *)
(* mean" caveat to the part of a department if and only if the department  *)
(* was resolved by fuzzy matching, that is if the text given is not        *)
(* itself a code or a name of the directory.                               *)
C12_CaveatIffFuzzy ==
    (ret.op = "tool_get_courses" /\ ret.out = "ok") =>
        \A i \in DOMAIN ret.rows :
            ret.rows[i].caveat <=> conv_dept(ret.rows[i].text) = NoDept

\* the canonical codes: the codes of the directory the resolvers read
CanonicalCodes == {Upper(code) : code \in Range(get_depts(DefaultTerm))}

\* resolving the code again gives the code
Resolved(code) ==
    conv_dept(code) = code /\ fuzzy_match_dept(Chars(code)) = code

(* C13: department resolution is idempotent: conv_dept(c) = c and          *)
(* fuzzy_match_dept(c) = c for every canonical code c, and resolving the   *)
(* result of a successful resolution (by conv_dept, by fuzzy_match_dept or *)
(* inside the tool get_courses) returns it unchanged.                      *)
C13_ResolutionIdempotent ==
    /\ \A c \in CanonicalCodes : Resolved(c)
    /\ \A text \in DeptTexts :
          conv_dept(text) # NoDept => Resolved(conv_dept(text))
    /\ \A text \in ToolDeptTexts :
          fuzzy_match_dept(text) # NoDept => Resolved(fuzzy_match_dept(text))
    /\ ret.op = "tool_get_courses" =>
          \A i \in DOMAIN ret.rows : Resolved(ret.rows[i].matched)

\* the tool resolved a text that is no code and no name to a code, and the
\* code resolves to itself
C13_Witness ==
    /\ ret.op = "tool_get_courses"
    /\ \E i \in DOMAIN ret.rows :
          /\ conv_dept(ret.rows[i].text) = NoDept
          /\ ret.rows[i].matched \in CanonicalCodes
          /\ Resolved(ret.rows[i].matched)

\* the candidates no other candidate is more similar to the word than
MostSimilar(word) ==
    {x \in all_options : \A y \in all_options :
        ratio(Chars(x), word).num * ratio(Chars(y), word).den
            >= ratio(Chars(y), word).num * ratio(Chars(x), word).den}

\* the code of a candidate, which is a code or a name
CodeOf(x) ==
    IF x \in Range(get_depts(DefaultTerm)) THEN Upper(x)
    ELSE Upper(get_depts(DefaultTerm)[x])

\* fuzzy_match_dept on the texts of the model
C14_MostSimilarOrNone ==
    \A text \in ToolDeptTexts :
        LET word == LowerChars(Strip(text))
        IN  IF \E x \in MostSimilar(word) :
                  2 * ratio(Chars(x), word).num >= ratio(Chars(x), word).den
              THEN fuzzy_match_dept(text)
                      \in {CodeOf(x) : x \in MostSimilar(word)}
              ELSE fuzzy_match_dept(text) = NoDept

(* C14: fuzzy_match_dept returns the code of the most similar candidate    *)
(* among the codes and the names of the directory when its similarity to   *)
(* the text is at least 0.5, and no match otherwise; the tool get_courses  *)
(* turns no match into DepartmentNotFound, without calling the source.     *)
C14_FuzzyMatchDept ==
    /\ C14_MostSimilarOrNone
    /\ ret.op = "tool_get_courses" =>
          /\ (\A i \in DOMAIN ret.arg : fuzzy_match_dept(ret.arg[i]) # NoDept)
                => ret.out # "DepartmentNotFound"
          /\ fuzzy_match_dept(ret.arg[1]) = NoDept
                => ret.out = "DepartmentNotFound" /\ ~ret.fetched

\* the tool was given a text at less than 0.5 of every candidate and raised
\* DepartmentNotFound, while a text at exactly 0.5 of a code resolves to it
C14_Witness ==
    /\ ret.op = "tool_get_courses"
    /\ ret.arg = <<Chars("eng")>>
    /\ \A x \in all_options : ~AtCutoff(ratio(Chars(x), Chars("eng")))
    /\ ret.out = "DepartmentNotFound"
    /\ 2 * ratio(Chars("ee"), Chars("ce")).num
          = ratio(Chars("ee"), Chars("ce")).den
    /\ fuzzy_match_dept(Chars("ce")) = "EE"

\* the text is a code or a name of the directory of the active term
InActiveDirectory(text) ==
    Lower(text) \in DOMAIN get_depts(term) \cup Range(get_depts(term))

(* C15: department resolution inside Cache.get_courses and                 *)
(* Cache.get_sections uses the directory of the cache's active term: a     *)
(* text is refused with DepartmentNotFound if and only if it is no code    *)
(* and no name of that directory.                                          *)
C15_ResolvesInActiveDirectory ==
    \A text \in DeptTexts :
        /\ get_courses(Cache, text, NoReply).out = "DepartmentNotFound"
              <=> ~InActiveDirectory(text)
        /\ get_sections(Cache, <<text, "104">>, NoReply).out
              = "DepartmentNotFound" <=> ~InActiveDirectory(text)

\* the parts of a course text: its letters, the spaces and the zeros before
\* the number, the number without leading zeros and the trailing letter
CourseParts ==
    [pad : {<<>>, <<" ">>},
     letters : {Chars("CSCI"), Chars("csci"), Chars("EE"), Chars("CSCU"),
                Chars("xyz")},
     gap : {<<>>, <<" ">>},
     zeros : {<<>>, <<"0">>, <<"0", "0">>},
     number : {<<"7">>, <<"1", "0">>, <<"1", "0", "4">>},
     letter : {<<>>, <<"A">>, <<"l">>}]

\* the text made of the parts
CourseText(p) ==
    p.pad \o p.letters \o p.gap \o p.zeros \o p.number \o p.letter \o p.pad

\* fuzzy_match_course on the texts made of the parts
C16_SplitsIntoParts ==
    /\ \A p \in CourseParts :
          LET dept == fuzzy_match_dept(p.letters)
          IN  fuzzy_match_course(CourseText(p)) =
                 IF dept = NoDept THEN NoCourse
                 ELSE [ok |-> TRUE, dept |-> dept,
                       num |-> Str(p.number \o UpperChars(p.letter))]
    /\ fuzzy_match_course(Chars("CSCI0104A"))
          = [ok |-> TRUE, dept |-> "CSCI", num |-> "104A"]

(* C16: fuzzy_match_course strips and upper-cases its input, removes the   *)
(* spaces and splits it into 2 to 4 letters, 1 to 3 digits and an optional *)
(* trailing letter, dropping the leading zeros of the number; the letters  *)
(* are resolved as a department. "CSCI0104A" gives CSCI and 104A.          *)
C16_FuzzyMatchCourse ==
    /\ C16_SplitsIntoParts
    /\ (ret.op = "tool_get_sections" /\ ret.out = "ok") =>
          \A i \in DOMAIN ret.rows :
             LET m == fuzzy_match_course(ret.arg[i])
             IN  m.ok /\ ret.rows[i].matched = m.dept \o " " \o m.num

\* the tool get_sections was given "csci 0104" and looked up "CSCI 104"
C16_Witness ==
    /\ ret.op = "tool_get_sections"
    /\ ret.arg = <<Chars("csci 0104")>>
    /\ ret.out = "ok"
    /\ ret.rows[1].matched = "CSCI 104"

\* the text does not have the shape of a course code (match.py line 92)
PatternFails(text) ==
    CoursePatternMatches(NoSpaces(UpperChars(Strip(text)))) = {}

(* C17: course resolution reports its two failures with different errors:  *)
(* the tool get_sections fails with CourseNotFound for a text that does    *)
(* not have the shape of a course code, and with DepartmentNotFound for a  *)
(* text of that shape whose department part cannot be resolved.            *)
C17_TwoFailuresTwoErrors ==
    (ret.op = "tool_get_sections" /\ Len(ret.arg) = 1) =>
        /\ PatternFails(ret.arg[1]) => ret.out = "CourseNotFound"
        /\ (~PatternFails(ret.arg[1]) /\ ~fuzzy_match_course(ret.arg[1]).ok)
              => ret.out = "DepartmentNotFound"

\* the department part and the course code of an argument of get_sections
DeptPart(code_split) ==
    conv_dept(JoinWith(" ", SubSeq(code_split, 1, Len(code_split) - 1)))
CodeOfArg(code_split) ==
    Upper(DeptPart(code_split)) \o " " \o code_split[Len(code_split)]

\* a Section row of the table has the term and the code
HasRow(table, t, code) ==
    \E i \in DOMAIN table : table[i].term = t /\ table[i].code = code

\* the call of the source that was just made failed
FetchFailed(calls) ==
    get_courses_dfs(calls[Len(calls)].raw, calls[Len(calls)].term).err
        # "none"

(* C18, as stated: Cache.get_sections fails with CourseNotFound exactly    *)
(* when the department resolves but no Section row of the active term has  *)
(* the code, and with DepartmentNotFound exactly when the department part  *)
(* does not resolve.                                                       *)
C18_Original ==
    [][ret'.op = "get_sections" =>
         /\ ret'.out = "DepartmentNotFound" <=> DeptPart(ret'.arg) = NoDept
         /\ ret'.out = "CourseNotFound"
               <=> /\ DeptPart(ret'.arg) # NoDept
                   /\ ~HasRow(sections', term', CodeOfArg(ret'.arg))]_vars

(* C18, amended: Cache.get_sections fails with DepartmentNotFound exactly  *)
(* when the department part does not resolve, and then nothing is fetched  *)
(* and the cache is unchanged; it fails with CourseNotFound exactly when   *)
(* the department resolves, the fetch of this call, if any, did not fail,  *)
(* and no Section row of the active term has the code.                     *)
C18_NotFoundErrors ==
    [][ret'.op = "get_sections" =>
         /\ ret'.out = "DepartmentNotFound" <=> DeptPart(ret'.arg) = NoDept
         /\ DeptPart(ret'.arg) = NoDept =>
               UNCHANGED <<term, cached, courses, sections, log>>
         /\ ret'.out = "CourseNotFound"
               <=> /\ DeptPart(ret'.arg) # NoDept
                   /\ ~(ret'.fetched /\ FetchFailed(log'))
                   /\ ~HasRow(sections', term', CodeOfArg(ret'.arg))]_vars

\* get_sections fetched the department of a code no section has, and failed
\* with CourseNotFound
C18_Witness ==
    /\ ret.op = "get_sections"
    /\ DeptPart(ret.arg) # NoDept
    /\ ret.fetched /\ ~FetchFailed(log)
    /\ sections # <<>>
    /\ ~HasRow(sections, term, CodeOfArg(ret.arg))
    /\ ret.out = "CourseNotFound"

(* C19: Cache.get_sections resolves its argument with the course resolver: *)
(* "CSCI104" and "csci 0104" give the same result, with the same rows, as  *)
(* "CSCI 104".                                                             *)
C19_VariantsGiveSameRows ==
    \A raw \in Replies("CSCI", term) :
        \A variant \in {<<"CSCI104">>, <<"csci", "0104">>} :
            /\ get_sections(Cache, variant, raw).out
                  = get_sections(Cache, <<"CSCI", "104">>, raw).out
            /\ get_sections(Cache, variant, raw).rows
                  = get_sections(Cache, <<"CSCI", "104">>, raw).rows

\* the text returned by the last call, a get_courses or get_sections that
\* found rows
ReturnedCsv ==
    IF ret.op = "get_sections"
      THEN to_csv(ret.rows, SectionColumns, SectionsDropped)
      ELSE to_csv(ret.rows, CourseColumns, CoursesDropped)

\* a Course row of the active term has the department
HasCourse(dept) ==
    \E i \in DOMAIN courses :
        courses[i].term = term /\ courses[i].dept = dept

\* what the claim says of get_courses: the columns of its CSV, and the
\* marker in its place exactly when no row matches
C20_CoursesCsv ==
    (ret.op = "get_courses"
        /\ ret.out \notin {"DepartmentNotFound", "TypeError", "KeyError"}) =>
        /\ ret.out \in {"csv", "empty"}
        /\ ret.out = "empty" <=> ~HasCourse(conv_dept(ret.arg))
        /\ ret.out = "csv" =>
              /\ ReturnedCsv.header
                    = <<"code", "title", "description", "units">>
              /\ Len(ReturnedCsv.lines) = Len(ret.rows)

(* C20, as stated: the CSV of get_sections has exactly the columns title,  *)
(* instructor, location, start_time, end_time, day, spaces_left,           *)
(* number_registered, units; the CSV of get_courses has the columns code,  *)
(* title, description, units, and get_courses returns a marker that is no  *)
(* CSV, and no error, when no row matches.                                 *)
C20_Original ==
    /\ C20_CoursesCsv
    /\ (ret.op = "get_sections" /\ ret.out = "csv") =>
          ReturnedCsv.header
             = <<"title", "instructor", "location", "start_time", "end_time",
                 "day", "spaces_left", "number_registered", "units">>

(* C20, amended: the CSV of get_sections has exactly the columns id,       *)
(* title, instructor, location, start_time, end_time, day, spaces_left,    *)
(* number_registered, units, with one line for each row; the rest as       *)
(* stated.                                                                 *)
C20_CsvColumns ==
    /\ C20_CoursesCsv
    /\ (ret.op = "get_sections" /\ ret.out = "csv") =>
          /\ ReturnedCsv.header
                = <<"id", "title", "instructor", "location", "start_time",
                    "end_time", "day", "spaces_left", "number_registered",
                    "units">>
          /\ Len(ReturnedCsv.lines) = Len(ret.rows)
          /\ \A i \in DOMAIN ret.rows :
                /\ DOMAIN ret.rows[i] = Range(SectionColumns)
                /\ ReturnedCsv.lines[i].id = ret.rows[i].id

\* get_sections returned the CSV of two rows or more
C20_Witness ==
    /\ ret.op = "get_sections"
    /\ ret.out = "csv"
    /\ Len(ReturnedCsv.lines) >= 2
    /\ ReturnedCsv.lines[1].id # ReturnedCsv.lines[2].id

(***************************************************************************)
(* The term resolver, the session's schedule and the day conversion.       *)
(***************************************************************************)
(* C21: every term id returned by conv_term, hence the active term of the  *)
(* Cache after __init__ and after update_term, is a 5-digit integer whose  *)
(* last digit is 1, 2 or 3.                                                *)
C21_TermIdHasSeasonDigit ==
    /\ term >= 10000
    /\ term <= 99999
    /\ term % 10 \in {1, 2, 3}

\* the well-formed terms of the specification, and the code each stands for
SeasonNames == {"spring", "Spring", "summer", "SUMMER", "fall", "Fall"}
SeasonDigit(s) ==
    CASE s \in {"spring", "Spring"} -> 1
      [] s \in {"summer", "SUMMER"} -> 2
      [] s \in {"fall", "Fall"} -> 3
      [] OTHER -> 0
WellFormedTerm(t) ==
    \/ t.k = "int" /\ t.n >= 10000 /\ t.n <= 99999
    \/ t.k = "name" /\ SeasonDigit(t.season) # 0
          /\ t.year >= 1000 /\ t.year <= 9999
CanonicalTerm(t) ==
    IF t.k = "int" THEN t.n ELSE t.year * 10 + SeasonDigit(t.season)

(* C22: conv_term maps every well-formed term to its canonical code: a     *)
(* 5-digit numeric string or int t to int(t), and "<Season> <Year>" with   *)
(* Spring, Summer or Fall in any letter case and a 4-digit year to         *)
(* year * 10 + d with d = 1, 2, 3; update_term makes it the active term.   *)
C22_WellFormedTermIsCanonical ==
    /\ \A t \in TermInputs \cup {NameTerm(s, 2025) : s \in SeasonNames}
                          \cup {IntTerm(n) : n \in {10000, 99999}} :
          WellFormedTerm(t) =>
             conv_term(t) = [ok |-> TRUE, val |-> CanonicalTerm(t)]
    /\ (ret.op = "update_term" /\ WellFormedTerm(ret.arg)) =>
          /\ ret.out = "ok"
          /\ term = CanonicalTerm(ret.arg)

\* update_term was given a season name in lower case on a cache of
\* another term
C22_Witness ==
    /\ ret.op = "update_term"
    /\ ret.arg = NameTerm("spring", 2025)
    /\ term = 20251
    /\ \E p \in cached : p[2] = 20253

(* C23: a term that is not null, not a 5-digit numeric string or int and   *)
(* not "<Season> <Year>" makes conv_term fail with the invalid-term-format *)
(* error, and a failing update_term leaves the active term, the set of     *)
(* fetched pairs and both tables unchanged.                                *)
C23_InvalidTermRejected ==
    [][ret'.op = "update_term" =>
          /\ \A t \in {BadTerm, IntTerm(0), IntTerm(9999), IntTerm(100000),
                       NameTerm("Winter", 2025), NameTerm("Fall", 25),
                       NameTerm("fall", 20253)} :
                ~conv_term(t).ok
          /\ ~WellFormedTerm(ret'.arg) =>
                /\ ~conv_term(ret'.arg).ok
                /\ ret'.out = "ValueError"
          /\ ret'.out # "ok" =>
                UNCHANGED <<term, cached, courses, sections, log>>]_vars

\* update_term was given a 4-digit number on a cache that holds rows
C23_Witness ==
    /\ ret.op = "update_term"
    /\ ret.arg = IntTerm(2025)
    /\ ret.out = "ValueError"
    /\ sections # <<>>
    /\ cached # {}

\* the events of one section of the schedule
EventsOf(id) == Range(Events(Cache, <<id>>))

(* C24: after any sequence of add, remove and remove_all tool calls,       *)
(* whether they succeed or fail, section_ids holds no two sections that    *)
(* share a day and whose time intervals overlap.                           *)
C24_ScheduleHasNoConflict ==
    \A i, j \in DOMAIN section_ids :
        section_ids[i] # section_ids[j] =>
            \A e1 \in EventsOf(section_ids[i]) :
                \A e2 \in EventsOf(section_ids[j]) :
                    (Numeric(e1) /\ Numeric(e2)) => ~C6_Conflict(e1, e2)

(* C25: an add_sections call that fails leaves section_ids and the figure  *)
(* displayed exactly as they were before the call, so that the figure      *)
(* always shows the sections of section_ids.                               *)
C25_FailedAddLeavesSchedule ==
    [][(ret'.op = "add_sections" /\ ret'.rows[1].built # "ok") =>
          /\ section_ids' = section_ids
          /\ fig' = fig
          /\ fig_created' = fig_created]_vars

(* C26: after remove_sections is given an id that is in the schedule, the  *)
(* id no longer occurs in section_ids, whatever adds came before (the same *)
(* id added more than once included).                                      *)
C26_RemovedIdIsGone ==
    (ret.op = "remove_sections" /\ ret.out = "ok") =>
        \A i \in DOMAIN ret.rows[1].valid :
            ret.rows[1].valid[i] \notin Range(section_ids)

(* C27: for every list of valid section ids sect_to_sched_dict returns     *)
(* exactly one event for each distinct id requested and no other event,    *)
(* in every reachable state of the cache (after departments of several     *)
(* terms were retrieved too); a schedule of a single section is never in   *)
(* conflict with itself.                                                   *)
C27_OneEventPerId ==
    \A ids \in IdLists :
        (\A i \in DOMAIN ids : is_valid_section(Cache, ids[i])) =>
            \A r \in sect_to_sched_dict(Cache, ids) :
                /\ r.out = "ok" => Len(r.rows) = Cardinality(Range(ids))
                /\ Len(ids) = 1 => r.out = "ok"

(* C28: the day list of every event sect_to_sched_dict builds holds only   *)
(* the names Mon, Tue, Wed, Thu, Fri, Sat, Sun (it is empty for a section  *)
(* without meeting days), so that every day can be placed by the renderer. *)
C28_EventDaysAreWeekDays ==
    \A id \in IdInputs :
        \A e \in EventsOf(id) : Range(e.day) \subseteq WeekDays

\* the rows of a table are kept, in their places
IsPrefix(old, new) ==
    /\ Len(old) <= Len(new)
    /\ SubSeq(new, 1, Len(old)) = old

ReadOnlyCalls ==
    {"is_valid_section", "get_section_data", "get_sections_data",
     "sect_to_sched_dict"}

(* C29: rows are immutable once retrieved and the cache stores no          *)
(* schedule: no call of the cache removes or changes a row of the Courses  *)
(* or Sections table (retrieve only appends), and is_valid_section,        *)
(* get_section_data, get_sections_data and sect_to_sched_dict leave the    *)
(* active term, the fetched pairs and both tables unchanged and never call *)
(* the source.                                                             *)
C29_RowsImmutable ==
    [][/\ IsPrefix(courses, courses')
       /\ IsPrefix(sections, sections')
       /\ UNCHANGED <<section_ids, fig, fig_created>>
       /\ ret'.op \in ReadOnlyCalls =>
             /\ UNCHANGED <<term, cached, courses, sections, log>>
             /\ ~ret'.fetched]_vars

\* sect_to_sched_dict built the schedule of two sections on a cache that
\* made two fetches
C29_Witness ==
    /\ ret.op = "sect_to_sched_dict"
    /\ ret.out = "ok"
    /\ Len(ret.rows) = 2
    /\ Len(log) = 2
    /\ Cardinality(cached) = 2

\* the day values of the sections in the replies the source has given
RawDays ==
    UNION {UNION {{cd.SectionData[j].day : j \in DOMAIN cd.SectionData} :
                     cd \in Range(log[k].raw.course)} : k \in DOMAIN log}

\* the names of the characters that are day letters in either case, in the
\* order of the input
DayNames(chars) ==
    Let(SelectSeq(UpperChars(chars), LAMBDA ch : ch \in DOMAIN day_of_week),
        LAMBDA letters : [i \in DOMAIN letters |-> day_of_week[letters[i]]])

(* C30: conv_days keeps, in the order of the input, exactly the characters *)
(* that are day letters (M, T, W, H, F, S, U) whatever their letter case   *)
(* and maps each to its three-letter name, as its docstring states; every  *)
(* name it gives for a string is one of Mon, Tue, Wed, Thu, Fri, Sat, Sun. *)
C30_ConvDaysAnyCase ==
    \A d \in RawDays :
        d.str =>
            /\ conv_days(d) = DayNames(d.chars)
            /\ Range(conv_days(d)) \subseteq WeekDays

====
